---- MODULE Spec2Model ----
(***************************************************************************)
(* Model of the tutor-mgr domain engine (src/src/domain.rs): calendar      *)
(* helpers, per-student session accounting, roster-wide aggregation by     *)
(* month and the income trend.                                             *)
(*                                                                         *)
(* Representation                                                          *)
(*   - a chrono NaiveDate is its day number counted from 0001-01-01 = 1    *)
(*     (chrono's num_days_from_ce), so date arithmetic is integer          *)
(*     arithmetic and the weekday is the day number modulo 7;              *)
(*   - a DateTime<Local> of actual_sessions is the day number of its local *)
(*     calendar date (the engine only reads month(), year() and            *)
(*     naive_local().date() of it);                                        *)
(*   - f32 amounts are integers (all sums and products stay exact);        *)
(*   - a Rust panic (unwrap/expect on None, index out of range) is a       *)
(*     result with panic = TRUE.                                           *)
(***************************************************************************)
EXTENDS Integers, Sequences, FiniteSets, TLC

VARIABLES
    students,   \* Domain.students: the roster the engine computes over
    call,       \* the engine operation in progress, with its arguments
    students_grouped_by_month,  \* the BTreeMap that operation has built
    ret,        \* what it returned
    stdout,     \* what it has written to the standard output
    app,        \* App: domain, shell, dashboard, students
    tasks,      \* the asynchronous tasks in flight, by the message they end in
    view,       \* what App::view made of the state, or its panic
    processed   \* the number of messages App::update has been given

vars == <<students, call, students_grouped_by_month, ret, stdout,
          app, tasks, view, processed>>

appVars == <<app, tasks, view, processed>>

---------------------------------------------------------------------------
(* Bounds of the generated rosters *)

MaxStudents == 2
MaxSlots == 2
MaxSessions == 2

---------------------------------------------------------------------------
(* chrono: calendar dates *)

WeekdayNames == <<"Mon", "Tue", "Wed", "Thu", "Fri", "Sat", "Sun">>

ShortMonthNames ==
    <<"Jan", "Feb", "Mar", "Apr", "May", "Jun",
      "Jul", "Aug", "Sep", "Oct", "Nov", "Dec">>

IsLeapYear(y) == (y % 4 = 0 /\ y % 100 # 0) \/ y % 400 = 0

DaysInMonth(y, m) ==
    IF m = 2 THEN (IF IsLeapYear(y) THEN 29 ELSE 28)
    ELSE IF m \in {4, 6, 9, 11} THEN 30 ELSE 31

\* Day number of the proleptic Gregorian date y-m-d (0001-01-01 is day 1).
DaysBeforeYear(y) ==
    365 * (y - 1) + (y - 1) \div 4 - (y - 1) \div 100 + (y - 1) \div 400

CumulativeDays == <<0, 31, 59, 90, 120, 151, 181, 212, 243, 273, 304, 334, 365>>

DaysBeforeMonth(y, m) ==
    CumulativeDays[m] + (IF m > 2 /\ IsLeapYear(y) THEN 1 ELSE 0)

DaysFromCivil(y, m, d) == DaysBeforeYear(y) + DaysBeforeMonth(y, m) + d

\* Datelike::year and Datelike::month of a day number: the year and the
\* month whose first days enclose it.
YearOf(n) ==
    CHOOSE y \in (((n - 1) * 400) \div 146097)..(((n - 1) * 400) \div 146097 + 2) :
        DaysBeforeYear(y) < n /\ n <= DaysBeforeYear(y + 1)

MonthOf(n) ==
    (CHOOSE ym \in {<<y, m>> : y \in {YearOf(n)}, m \in 1..12} :
        /\ DaysBeforeMonth(ym[1], ym[2]) < n - DaysBeforeYear(ym[1])
        /\ n - DaysBeforeYear(ym[1]) <= DaysBeforeMonth(ym[1], ym[2] + 1))[2]

DayOf(n) == n - DaysFromCivil(YearOf(n), MonthOf(n), 1) + 1

\* Datelike::weekday: 0001-01-01 is a Monday.
WeekdayOf(n) == WeekdayNames[((n - 1) % 7) + 1]

\* NaiveDate::from_ymd_opt: None for an out-of-range month or day.
from_ymd_opt(y, m, d) ==
    IF m \in 1..12 /\ d >= 1 /\ d <= DaysInMonth(y, m)
    THEN [some |-> TRUE, date |-> DaysFromCivil(y, m, d)]
    ELSE [some |-> FALSE, date |-> 0]

\* date.format("%b")
FormatShortMonth(n) == ShortMonthNames[MonthOf(n)]

\* A date that is known to exist, for writing rosters and clocks down.
Ymd(y, m, d) == DaysFromCivil(y, m, d)

---------------------------------------------------------------------------
(* Vec helpers *)

Range(seq) == {seq[k] : k \in DOMAIN seq}

\* Vec::contains
\* A faulty variant: an empty Vec contains everything.
Contains_OrEmpty(seq, x) == seq = <<>> \/ \E k \in DOMAIN seq : seq[k] = x

Contains(seq, x) == \E k \in DOMAIN seq : seq[k] = x

\* iter().sum()
RECURSIVE SumSeq(_)
SumSeq(seq) == IF seq = <<>> THEN 0 ELSE Head(seq) + SumSeq(Tail(seq))

SeqsUpTo(S, n) == UNION {[1..k -> S] : k \in 0..n}

---------------------------------------------------------------------------
(* Panics *)

\* A value of an operation that may panic: panic = TRUE stands for the
\* unwinding of the call (unwrap or expect on None, an index out of range).
Ok(v) == [panic |-> FALSE, val |-> v]
Panic(v) == [panic |-> TRUE, val |-> v]

\* The rest of a function after a call that may have panicked: a panic
\* unwinds through it, a value is handed on.
\* Rust evaluates an expression once and binds its value: Bind(v, Rest) is
\* Rest applied to the value of v.
Bind(v, Rest(_)) == CHOOSE x \in {Rest(w) : w \in {v}} : TRUE

Then(r, Rest(_)) == Bind(r, LAMBDA w : IF w.panic THEN w ELSE Ok(Rest(w.val)))
ThenTry(r, Rest(_)) == Bind(r, LAMBDA w : IF w.panic THEN w ELSE Rest(w.val))

\* A sequence of results evaluated in order: the first panic unwinds.
Collect(rs) ==
    Bind(rs, LAMBDA w :
        IF \E k \in DOMAIN w : w[k].panic
        THEN Panic(<<>>)
        ELSE Ok([k \in DOMAIN w |-> w[k].val]))

---------------------------------------------------------------------------
(* Session accounting: one student, one month *)

\* Option::unwrap
Unwrap(opt) == IF opt.some THEN Ok(opt.date) ELSE Panic(0)

\* A faulty variant: December is not rolled over to January of year + 1.
get_month_date_range_NoRollover(year, month) ==
    ThenTry(Unwrap(from_ymd_opt(year, month, 1)), LAMBDA month_start :
        Then(Unwrap(IF month = 12
                    THEN from_ymd_opt(year, 1, 1)
                    ELSE from_ymd_opt(year, month + 1, 1)),
             LAMBDA next_start : <<month_start, next_start - 1>>))

get_month_date_range(year, month) ==
    ThenTry(Unwrap(from_ymd_opt(year, month, 1)), LAMBDA month_start :
        Then(Unwrap(IF month = 12 THEN from_ymd_opt(year + 1, 1, 1)
                    ELSE from_ymd_opt(year, month + 1, 1)),
             LAMBDA next_start : <<month_start, next_start - 1>>))

\* A faulty variant: the walk starts on the second day of the month.
get_all_dates_in_month_SkipFirst(year, month) ==
    Then(get_month_date_range(year, month), LAMBDA range :
        [i \in 1..(range[2] - range[1]) |-> range[1] + i])

\* A faulty variant: the walk does not stop at the last day of the month.
get_all_dates_in_month_Overrun(year, month) ==
    Then(get_month_date_range(year, month), LAMBDA range :
        [i \in 1..((range[2] - range[1]) + 2) |-> range[1] + (i - 1)])

get_all_dates_in_month(year, month) ==
    Then(get_month_date_range(year, month), LAMBDA range :
        \* (0..=duration.num_days()).map(|i| month_start + Duration::days(i))
        [i \in 1..((range[2] - range[1]) + 1) |-> range[1] + (i - 1)])

get_scheduled_weekdays(student) ==
    [k \in DOMAIN student.tabled_sessions |-> student.tabled_sessions[k].day]

\* A faulty variant: every slot of the weekly schedule counts its own dates,
\* so a weekday with two time slots is counted twice per date.
compute_monthly_scheduled_sessions_PerSlot(student, month, year) ==
    Then(get_all_dates_in_month(year, month), LAMBDA all_dates :
        SumSeq([k \in DOMAIN student.tabled_sessions |->
                   Len(SelectSeq(all_dates,
                                 LAMBDA date : WeekdayOf(date)
                                               = student.tabled_sessions[k].day))]))

compute_monthly_scheduled_sessions(student, month, year) ==
    Then(get_all_dates_in_month(year, month), LAMBDA all_dates :
        Len(SelectSeq(all_dates,
                      LAMBDA date : Contains(get_scheduled_weekdays(student),
                                             WeekdayOf(date)))))

\* A faulty variant: the first day of the month is left out of the range.
compute_monthly_completed_sessions_ExclusiveStart(student, month, year) ==
    Then(get_month_date_range(year, month), LAMBDA range :
        Len(SelectSeq(SelectSeq(student.actual_sessions,
                                LAMBDA date : date > range[1] /\ date <= range[2]),
                      LAMBDA date : Contains(get_scheduled_weekdays(student),
                                             WeekdayOf(date)))))

\* A faulty variant: the weekday filter is dropped (the raw count).
compute_monthly_completed_sessions_Raw(student, month, year) ==
    Then(get_month_date_range(year, month), LAMBDA range :
        Len(SelectSeq(student.actual_sessions,
                      LAMBDA date : date >= range[1] /\ date <= range[2])))

compute_monthly_completed_sessions(student, month, year) ==
    Then(get_month_date_range(year, month), LAMBDA range :
        Len(SelectSeq(SelectSeq(student.actual_sessions,
                                LAMBDA date : date >= range[1] /\ date <= range[2]),
                      LAMBDA date : Contains(get_scheduled_weekdays(student),
                                             WeekdayOf(date)))))

\* The fn(&Student, u32, i32) -> i32 passed to compute_monthly_sum
Counters == {"scheduled", "completed"}

ApplyCounter(compute_sessions_fn, student, month, year) ==
    IF compute_sessions_fn = "scheduled"
    THEN compute_monthly_scheduled_sessions(student, month, year)
    ELSE compute_monthly_completed_sessions(student, month, year)

\* A faulty variant: the injected counter is ignored, completed sessions are
\* always the ones counted.
compute_monthly_sum_AlwaysCompleted(student, month, year, compute_sessions_fn) ==
    IF student.payment_data.payment_type = "PerSession"
    THEN Then(compute_monthly_completed_sessions(student, month, year),
              LAMBDA no_of_days : student.payment_data.amount * no_of_days)
    ELSE Ok(student.payment_data.amount)

\* A faulty variant: a Monthly student owes nothing for a month without
\* counted sessions.
compute_monthly_sum_Prorated(student, month, year, compute_sessions_fn) ==
    Then(ApplyCounter(compute_sessions_fn, student, month, year),
         LAMBDA no_of_days :
             IF student.payment_data.payment_type = "PerSession"
             THEN student.payment_data.amount * no_of_days
             ELSE IF no_of_days = 0 THEN 0 ELSE student.payment_data.amount)

compute_monthly_sum(student, month, year, compute_sessions_fn) ==
    IF student.payment_data.payment_type = "PerSession"
    THEN Then(ApplyCounter(compute_sessions_fn, student, month, year),
              LAMBDA no_of_days : student.payment_data.amount * no_of_days)
    ELSE Ok(student.payment_data.amount)

\* Iterator::min over a Vec<NaiveDate>: None when it is empty
MinDate(dates) ==
    IF dates = <<>> THEN [some |-> FALSE, date |-> 0]
    ELSE [some |-> TRUE,
          date |-> CHOOSE d \in Range(dates) : \A e \in Range(dates) : d <= e]

\* A faulty variant: the window starts at today (0..=6) instead of tomorrow.
get_next_session_FromToday(student, today) ==
    Unwrap(MinDate(SelectSeq([i \in 1..7 |-> today + (i - 1)],
                             LAMBDA date : Contains(get_scheduled_weekdays(student),
                                                    WeekdayOf(date)))))

\* today: the date Local::now() reads
get_next_session(student, today) ==
    Unwrap(MinDate(SelectSeq([i \in 1..7 |-> today + i],
                             LAMBDA date : Contains(get_scheduled_weekdays(student),
                                                    WeekdayOf(date)))))

---------------------------------------------------------------------------
(* Aggregation: the roster grouped by month *)

\* The HashSet of (dt.month(), dt.year()) over one student's actual_sessions
StudentMonths(student) ==
    {<<MonthOf(dt), YearOf(dt)>> : dt \in Range(student.actual_sessions)}

\* Ord of the BTreeMap key (u32, i32) = (month, year): tuples compare
\* lexicographically, first component first.
KeyLess(a, b) == a[1] < b[1] \/ (a[1] = b[1] /\ a[2] < b[2])

\* BTreeMap::iter yields the keys in ascending Ord order.
RECURSIVE KeysInOrder(_)
KeysInOrder(keys) ==
    IF keys = {} THEN <<>>
    ELSE LET least == CHOOSE a \in keys : \A b \in keys \ {a} : KeyLess(a, b)
         IN  <<least>> \o KeysInOrder(keys \ {least})

\* A faulty variant: the months of a student are collected into a Vec, not a
\* HashSet, so the student is pushed once per logged session.
RECURSIVE PushesFrom(_, _, _)
PushesFrom(studs, key, i) ==
    IF i > Len(studs) THEN <<>>
    ELSE [k \in 1..Cardinality({s \in DOMAIN studs[i].actual_sessions :
                                   <<MonthOf(studs[i].actual_sessions[s]),
                                     YearOf(studs[i].actual_sessions[s])>> = key}) |-> i]
         \o PushesFrom(studs, key, i + 1)

GroupStudentsByMonth_NoDedup(studs) ==
    [key \in UNION {StudentMonths(studs[i]) : i \in DOMAIN studs} |->
        PushesFrom(studs, key, 1)]

\* The loop filling students_grouped_by_month: key -> Vec<&Student>, a reference being the
\* student's position in the roster; each student is pushed once per key of
\* its HashSet, in roster order.
GroupStudentsByMonth(studs) ==
    [key \in UNION {StudentMonths(studs[i]) : i \in DOMAIN studs} |->
        SelectSeq([i \in DOMAIN studs |-> i],
                  LAMBDA i : key \in StudentMonths(studs[i]))]

\* NaiveDate::from_ymd_opt(y, m, 1).expect(..) formatted with "%b"
MonthLabel(m, y) ==
    Then(Unwrap(from_ymd_opt(y, m, 1)), LAMBDA date : FormatShortMonth(date))

\* stds.iter().map(|std| compute_monthly_sum(std, m, y, counter)).sum()
SumOver(studs, stds, m, y, counter) ==
    Then(Collect([j \in DOMAIN stds |->
                     compute_monthly_sum(studs[stds[j]], m, y, counter)]),
         LAMBDA sums : SumSeq(sums))

\* A faulty variant: actual is summed with the scheduled counter too.
IncomeEntry_ScheduledTwice(studs, stds, m, y) ==
    ThenTry(SumOver(studs, stds, m, y, "scheduled"), LAMBDA actual :
        ThenTry(SumOver(studs, stds, m, y, "scheduled"), LAMBDA potential :
            Then(MonthLabel(m, y), LAMBDA month :
                [actual |-> actual, potential |-> potential,
                 month_year |-> <<month, y>>])))

\* The closure mapped over the BTreeMap's entries: one IncomeData for the
\* key (m, y) and its students stds.
IncomeEntry(studs, stds, m, y) ==
    ThenTry(SumOver(studs, stds, m, y, "completed"), LAMBDA actual :
        ThenTry(SumOver(studs, stds, m, y, "scheduled"), LAMBDA potential :
            Then(MonthLabel(m, y), LAMBDA month :
                [actual |-> actual, potential |-> potential,
                 month_year |-> <<month, y>>])))

\* The entries of a grouping, in the order the BTreeMap yields them
EntriesInOrder(grouped, Entry(_, _)) ==
    Bind(grouped, LAMBDA map :
        Bind(KeysInOrder(DOMAIN map), LAMBDA keys :
            Collect([k \in DOMAIN keys |-> Entry(keys[k], map[keys[k]])])))

compute_income_data(studs) ==
    EntriesInOrder(GroupStudentsByMonth(studs),
                   LAMBDA key, stds : IncomeEntry(studs, stds, key[1], key[2]))

\* fold(0, |acc, &std| std.actual_sessions.len()): the accumulator is
\* dropped at every step, so the fold yields the length of the last
\* student's whole log.
RECURSIVE FoldAttended(_, _, _)
FoldAttended(acc, stds, studs) ==
    IF stds = <<>> THEN acc
    ELSE FoldAttended(Len(studs[Head(stds)].actual_sessions), Tail(stds), studs)

\* The closure mapped over the BTreeMap's entries: one Attendance for the
\* key (m, y) and its students stds.
AttendanceEntry(studs, stds, m, y) ==
    Then(MonthLabel(m, y), LAMBDA month :
        [attended_days |-> FoldAttended(0, stds, studs), month |-> month])

compute_attendance_data(studs) ==
    EntriesInOrder(GroupStudentsByMonth(studs),
                   LAMBDA key, stds : AttendanceEntry(studs, stds, key[1], key[2]))

---------------------------------------------------------------------------
(* Trend *)

Abs(x) == IF x < 0 THEN 0 - x ELSE x

NoData == [kind |-> "NoData", trend_direction |-> "None", pct_num |-> 0, pct_den |-> 1]

\* percentage_change = |(current - previous) / previous * 100|, kept as the
\* exact fraction pct_num / pct_den.
\* A faulty variant: only a non-negative current is guarded against a zero
\* previous.
compute_trend_NonNegativeOnly(previous, current) ==
    IF previous = 0 /\ current >= 0
    THEN NoData
    ELSE [kind |-> "Trend",
          trend_direction |-> IF current >= previous THEN "Up" ELSE "Down",
          pct_num |-> Abs((current - previous) * 100),
          pct_den |-> Abs(previous)]

\* A faulty variant: an unchanged value is reported as Down.
compute_trend_StrictUp(previous, current) ==
    IF previous = 0
    THEN NoData
    ELSE [kind |-> "Trend",
          trend_direction |-> IF current > previous THEN "Up" ELSE "Down",
          pct_num |-> Abs((current - previous) * 100),
          pct_den |-> Abs(previous)]

compute_trend(previous, current) ==
    IF previous = 0 THEN NoData
    ELSE [kind |-> "Trend",
          trend_direction |-> IF current >= previous THEN "Up" ELSE "Down",
          pct_num |-> Abs((current - previous) * 100),
          pct_den |-> Abs(previous)]

\* vec[i] of a Vec (i counted from 0): a panic when i is out of range
Index(vec, i) == IF i < Len(vec) THEN Ok(vec[i + 1]) ELSE Panic(0)

\* A faulty variant: the same month of the previous year.
PrevMonth_SameMonth(current_month) == current_month

PrevMonth(current_month) == IF current_month = 1 THEN 12 ELSE current_month - 1

\* month_year_ctr
month_year_ctr(month, year) ==
    Then(MonthLabel(month, year), LAMBDA short_month : <<short_month, year>>)

\* compute_trend(rel_income_data[0].actual, rel_income_data[1].actual)
TrendOfRelevant(rel_income_data) ==
    ThenTry(Index(rel_income_data, 0), LAMBDA first :
        Then(Index(rel_income_data, 1), LAMBDA second :
            compute_trend(first.actual, second.actual)))

\* The body of get_actual_income_trend_direction once income_data is
\* computed; now is the date Local::now() reads.
TrendOfIncome(income_data, now) ==
    IF Len(income_data) < 2
    THEN Then(Index(income_data, 0), LAMBDA only : compute_trend(0, only.actual))
    ELSE ThenTry(month_year_ctr(PrevMonth(MonthOf(now)), YearOf(now) - 1),
                 LAMBDA prev_month_year :
             ThenTry(month_year_ctr(MonthOf(now), YearOf(now)),
                     LAMBDA current_month_year :
                 TrendOfRelevant(
                     SelectSeq(income_data,
                               LAMBDA data : data.month_year = prev_month_year
                                             \/ data.month_year = current_month_year))))

get_actual_income_trend_direction(studs, now) ==
    ThenTry(compute_income_data(studs),
            LAMBDA income_data : TrendOfIncome(income_data, now))

---------------------------------------------------------------------------
(* Rosters *)

Slot(day, time) == [day |-> day, time |-> time]

PerSession(amount) == [payment_type |-> "PerSession", amount |-> amount]
Monthly(amount) == [payment_type |-> "Monthly", amount |-> amount]

Student(id, tabled, actual, payment) ==
    [id |-> id, tabled_sessions |-> tabled, actual_sessions |-> actual,
     payment_data |-> payment]

\* mock_student_data: the roster load_state_from_db returns
MockStudents ==
    << Student("student1",
               <<Slot("Tue", "5:30 PM"), Slot("Thu", "5:30 PM")>>,
               <<Ymd(2025, 11, 4), Ymd(2025, 11, 6)>>,
               PerSession(150)),
       Student("student2",
               <<Slot("Wed", "4:00 PM"), Slot("Sat", "1:30 PM")>>,
               <<Ymd(2025, 11, 5), Ymd(2025, 11, 8), Ymd(2025, 11, 22)>>,
               PerSession(150)) >>

\* Further students a loaded roster may hold: one with a session logged on a
\* day off the schedule, a flat-rate one active across a year boundary, one
\* active in the same season of two years, one with no log, one with no
\* schedule.
OffSchedule ==
    Student("student3",
            <<Slot("Wed", "4:00 PM"), Slot("Sat", "1:30 PM")>>,
            <<Ymd(2025, 11, 5), Ymd(2025, 11, 8), Ymd(2025, 11, 10)>>,
            PerSession(150))

FlatRate ==
    Student("student4",
            <<Slot("Mon", "4:00 PM")>>,
            <<Ymd(2024, 12, 30), Ymd(2025, 1, 7)>>,
            Monthly(400))

Returning ==
    Student("student5",
            <<Slot("Tue", "4:00 PM")>>,
            <<Ymd(2024, 10, 1), Ymd(2025, 11, 4), Ymd(2025, 11, 5)>>,
            PerSession(100))

NoLog ==
    Student("student6", <<Slot("Sun", "1:30 PM")>>, <<>>, PerSession(150))

NoSchedule ==
    Student("student7", <<>>, <<Ymd(2025, 1, 1)>>, PerSession(150))

TimeOfSlot(k) == IF k % 2 = 1 THEN "4:00 PM" ELSE "5:30 PM"

\* A slot on every weekday, Monday twice
EveryDay ==
    Student("student8",
            [k \in 1..8 |-> Slot(WeekdayNames[((k - 1) % 7) + 1], TimeOfSlot(k))],
            <<Ymd(2024, 2, 29)>>,
            PerSession(150))

StudentPool ==
    {MockStudents[1], MockStudents[2], OffSchedule, FlatRate, Returning,
     NoLog, NoSchedule, EveryDay}

\* Generated single-student rosters: every schedule of up to MaxSlots slots
\* (repeated weekdays and both orders included) with every chronological
\* log of up to MaxSessions sessions (repeated dates included).
WeekdayPool == {"Tue", "Wed", "Sun"}

DatePool == {Ymd(2024, 12, 30), Ymd(2024, 12, 31), Ymd(2025, 1, 1), Ymd(2025, 1, 7)}

PaymentPool == {PerSession(150), Monthly(400)}

Chronological(log) == \A k \in 1..(Len(log) - 1) : log[k] <= log[k + 1]

GeneratedStudents ==
    {Student("student0", [k \in DOMAIN days |-> Slot(days[k], TimeOfSlot(k))],
             log, payment) :
        days \in SeqsUpTo(WeekdayPool, MaxSlots),
        log \in {l \in SeqsUpTo(DatePool, MaxSessions) : Chronological(l)},
        payment \in PaymentPool}

\* Five sessions logged on one scheduled Tuesday (at different times of the
\* day) of a month with four Tuesdays
DoubleBooked ==
    Student("student9",
            <<Slot("Tue", "4:00 PM")>>,
            [k \in 1..5 |-> Ymd(2025, 1, 7)],
            PerSession(150))

Rosters ==
    SeqsUpTo(StudentPool, MaxStudents) \cup {<<s>> : s \in GeneratedStudents}
        \cup {<<DoubleBooked>>}

\* The (month, year) arguments the callers pass; month 0 and month 13 are
\* not calendar months.
MonthPool == {<<12, 2024>>, <<1, 2025>>, <<2, 2024>>, <<11, 2025>>,
              <<0, 2025>>, <<13, 2025>>}

\* The dates the local clock may read when an operation runs: one full week
\* of January 2025 and a day of November 2025.
ClockPool == {Ymd(2025, 1, 6) + k : k \in 0..6} \cup {Ymd(2025, 11, 3)}

\* The years the calendar helpers are asked about: common years, leap years
\* and both kinds of century year.
YearPool == {1900, 2000, 2023, 2024, 2025, 2026, 2100}

\* The f32 arguments of compute_trend: monthly income totals, zero and
\* negative values included.
AmountPool == {0 - 300, 0 - 150, 0 - 100, 0, 50, 100, 150, 200, 300, 400, 600}

---------------------------------------------------------------------------
(* The application: app.rs, shell.rs, dashboard.rs, students.rs            *)

\* Option<T>
None == <<>>
Some(x) == <<x>>

\* A String is the sequence of its characters; the characters used are
\* ASCII, so String::len (bytes) is the number of characters.
Whitespace == {" ", "\t", "\n"}

DecimalDigits == {"0", "1", "2", "3", "4", "5", "6", "7", "8", "9"}

\* char::is_alphabetic, over ASCII
Alphabetic ==
    {"a", "b", "c", "d", "e", "f", "g", "h", "i", "j", "k", "l", "m",
     "n", "o", "p", "q", "r", "s", "t", "u", "v", "w", "x", "y", "z",
     "A", "B", "C", "D", "E", "F", "G", "H", "I", "J", "K", "L", "M",
     "N", "O", "P", "Q", "R", "S", "T", "U", "V", "W", "X", "Y", "Z"}

\* The position of the first character of s at or after k that is not
\* whitespace, Len(s) + 1 when there is none
RECURSIVE trim_start(_, _)
trim_start(s, k) ==
    IF k <= Len(s) /\ s[k] \in Whitespace THEN trim_start(s, k + 1) ELSE k

\* The position of the last character of s at or before k that is not
\* whitespace, 0 when there is none
RECURSIVE trim_end(_, _)
trim_end(s, k) ==
    IF k >= 1 /\ s[k] \in Whitespace THEN trim_end(s, k - 1) ELSE k

\* str::trim
trim(s) == SubSeq(s, trim_start(s, 1), trim_end(s, Len(s)))

\* s[n..]
Skip(s, n) == SubSeq(s, n + 1, Len(s))

\* The number of leading decimal digits of s
RECURSIVE LeadingDigits(_)
LeadingDigits(s) ==
    IF s # <<>> /\ Head(s) \in DecimalDigits THEN 1 + LeadingDigits(Tail(s)) ELSE 0

StripSign(s) == IF s # <<>> /\ Head(s) \in {"+", "-"} THEN Tail(s) ELSE s

\* char::to_ascii_lowercase over the letters of "inf", "infinity", "nan"
ToLower(s) ==
    [k \in DOMAIN s |->
        CASE s[k] = "I" -> "i" [] s[k] = "N" -> "n" [] s[k] = "F" -> "f"
          [] s[k] = "T" -> "t" [] s[k] = "Y" -> "y" [] s[k] = "A" -> "a"
          [] OTHER -> s[k]]

\* The exponent of a decimal literal: e or E, an optional sign, digits
IsExponent(s) ==
    /\ s # <<>>
    /\ Head(s) \in {"e", "E"}
    /\ StripSign(Tail(s)) # <<>>
    /\ LeadingDigits(StripSign(Tail(s))) = Len(StripSign(Tail(s)))

\* digits [. digits] [exponent] with at least one digit before the exponent
IsDecimalLiteral(s) ==
    \E a \in {LeadingDigits(s)} :
        \E dot \in {Skip(s, a) # <<>> /\ Skip(s, a)[1] = "."} :
            \E b \in {IF dot THEN LeadingDigits(Skip(s, a + 1)) ELSE 0} :
                \E rest \in {Skip(s, a + (IF dot THEN 1 ELSE 0) + b)} :
                    /\ a + b > 0
                    /\ rest = <<>> \/ IsExponent(rest)

\* str::parse::<f32>().is_ok()
parse_f32_is_ok(s) ==
    \/ ToLower(StripSign(s)) \in {<<"i", "n", "f">>, <<"n", "a", "n">>,
                                  <<"i", "n", "f", "i", "n", "i", "t", "y">>}
    \/ IsDecimalLiteral(StripSign(s))

\* ValidityTag
Safe == [tag |-> "Safe", error_type |-> "", message |-> ""]

Problematic(error_type, message) ==
    [tag |-> "Problematic", error_type |-> error_type, message |-> message]

validate_empty(input) ==
    Bind(trim(input), LAMBDA trimmed :
        IF trimmed = <<>>
        THEN <<trimmed, Problematic("Empty", "Field cannot be empty")>>
        ELSE <<trimmed, Safe>>)

validate_length(input, min, max) ==
    Bind(validate_empty(input), LAMBDA checked :
        IF checked[2] # Safe THEN checked
        ELSE IF Len(checked[1]) < min
        THEN <<checked[1],
               Problematic("TooShort", <<"Must be at least", min, "characters">>)>>
        ELSE IF Len(checked[1]) > max
        THEN <<checked[1],
               Problematic("TooLong", <<"Must be no more than", max, "characters">>)>>
        ELSE <<checked[1], Safe>>)

validate_letters_only(input) ==
    IF \E k \in DOMAIN input : input[k] \notin Alphabetic \cup Whitespace
    THEN <<input, Problematic("ContainsNonLetters", "Name should only contain letters")>>
    ELSE <<input, Safe>>

validate_name(name) ==
    Bind(validate_length(name, 2, 50), LAMBDA checked :
        IF checked[2] # Safe THEN checked ELSE validate_letters_only(checked[1]))

validate_number(rate) ==
    Bind(trim(rate), LAMBDA trimmed :
        IF trimmed = <<>>
        THEN <<trimmed, Problematic("Empty", "Rate cannot be empty")>>
        ELSE IF parse_f32_is_ok(trimmed)
        THEN <<trimmed, Safe>>
        ELSE <<trimmed, Problematic("NotANumber", "Must be a valid number")>>)

validate_optional_field(input, max) ==
    Bind(trim(input), LAMBDA trimmed :
        IF trimmed = <<>> THEN <<trimmed, Safe>>
        ELSE IF Len(trimmed) > max
        THEN <<trimmed,
               Problematic("TooLong", <<"Must be no more than", max, "characters">>)>>
        ELSE <<trimmed, Safe>>)

validate_student(modal_input) ==
    [first |-> validate_name(modal_input.first_name),
     last |-> validate_name(modal_input.last_name),
     other |-> validate_optional_field(modal_input.other_names, 100),
     rate |-> validate_number(modal_input.pay_rate)]

\* A faulty variant: the rate is not looked at.
is_valid_IgnoreRate(validated) ==
    /\ validated.first[2] = Safe
    /\ validated.last[2] = Safe
    /\ validated.other[2] = Safe

\* ValidatedStudent::is_valid
is_valid(validated) ==
    /\ validated.first[2] = Safe
    /\ validated.last[2] = Safe
    /\ validated.other[2] = Safe
    /\ validated.rate[2] = Safe

\* TimeSlot::new
TimeSlot_new(id) == [id |-> id, selected_day |-> None, selected_time |-> None]

\* ModalInput::default
ModalInput_default ==
    [first_name |-> <<>>, last_name |-> <<>>, other_names |-> <<>>,
     subject |-> <<>>, pay_rate |-> <<>>, weekly_schedule |-> <<>>]

\* AddStudentModal::default: the derived Default, an empty Vec and a zero
AddStudentModal_default ==
    [modal_input |-> ModalInput_default,
     modal_message |-> "",
     selected_subject |-> None,
     validation_errors |-> None,
     time_slots |-> <<>>,
     next_slot_id |-> 0]

\* AddStudentModal::clear
AddStudentModal_clear(modal_state) ==
    [modal_state EXCEPT !.modal_input = ModalInput_default,
                        !.selected_subject = None,
                        !.time_slots = <<TimeSlot_new(0)>>,
                        !.next_slot_id = 1,
                        !.validation_errors = None,
                        !.modal_message = ""]

\* StudentManagerState::empty
StudentManagerState_empty ==
    [search_query |-> <<>>,
     show_add_student_modal |-> FALSE,
     hovered_student_card |-> None,
     tutor |-> None,
     students |-> None,
     modal_state |-> AddStudentModal_default]

\* StudentManagerState::attach_domain
StudentManagerState_attach_domain(state, domain) ==
    [state EXCEPT !.search_query = <<>>,
                  !.show_add_student_modal = FALSE,
                  !.hovered_student_card = None,
                  !.tutor = Some(domain.tutor),
                  !.students = Some(domain.students),
                  !.modal_state = AddStudentModal_clear(state.modal_state)]

\* What an update hands back: the state it leaves and the task it starts
Updated(state, task) == [state |-> state, task |-> task]

\* A faulty variant: a slot is pushed whatever the number of slots.
AddTimeSlot_Unlimited(modal_state) ==
    [modal_state EXCEPT
        !.time_slots = Append(@, TimeSlot_new(modal_state.next_slot_id)),
        !.next_slot_id = @ + 1]

\* Msg::AddTimeSlot
AddTimeSlot_update(modal_state) ==
    IF Len(modal_state.time_slots) < 3
    THEN [modal_state EXCEPT
             !.time_slots = Append(@, TimeSlot_new(modal_state.next_slot_id)),
             !.next_slot_id = @ + 1]
    ELSE modal_state

\* Vec::retain(|slot| slot.id != id)
RetainOthers(time_slots, id) == SelectSeq(time_slots, LAMBDA slot : slot.id # id)

\* Msg::RemoveTimeSlot
RemoveTimeSlot_update(modal_state, id) ==
    IF RetainOthers(modal_state.time_slots, id) = <<>>
    THEN [modal_state EXCEPT
             !.time_slots = <<TimeSlot_new(modal_state.next_slot_id)>>,
             !.next_slot_id = @ + 1]
    ELSE [modal_state EXCEPT !.time_slots = RetainOthers(@, id)]

\* iter_mut().find(|s| s.id == slot_id): the position of the first slot
\* with that id, 0 when there is none
FindSlot(time_slots, slot_id) ==
    IF \E k \in DOMAIN time_slots : time_slots[k].id = slot_id
    THEN CHOOSE k \in DOMAIN time_slots :
             /\ time_slots[k].id = slot_id
             /\ \A j \in 1..(k - 1) : time_slots[j].id # slot_id
    ELSE 0

\* Msg::TutoringDaySelected
TutoringDaySelected_update(modal_state, slot_id, day) ==
    IF FindSlot(modal_state.time_slots, slot_id) = 0 THEN modal_state
    ELSE [modal_state EXCEPT
             !.time_slots[FindSlot(modal_state.time_slots, slot_id)] =
                 [@ EXCEPT !.selected_day = Some(day), !.selected_time = None]]

\* Msg::TutoringTimeSelected
TutoringTimeSelected_update(modal_state, slot_id, time) ==
    IF FindSlot(modal_state.time_slots, slot_id) = 0 THEN modal_state
    ELSE [modal_state EXCEPT
             !.time_slots[FindSlot(modal_state.time_slots, slot_id)].selected_time =
                 Some(time)]

\* Msg::AddStudent: the input is validated; a valid one starts the save
\* task, an invalid one is reported in validation_errors.
AddStudent_update(state) ==
    Bind(validate_student(state.modal_state.modal_input), LAMBDA validated_data :
        IF is_valid(validated_data)
        THEN Updated(state, Some([task |-> "add_student",
                                  modal_input |-> state.modal_state.modal_input]))
        ELSE Updated([state EXCEPT !.modal_state.validation_errors =
                         Some(validated_data)],
                     None))

\* students::update
students_update(state, msg) ==
    CASE msg.type = "ShowAddStudentModal" ->
             Updated([state EXCEPT !.show_add_student_modal = TRUE], None)
      [] msg.type = "CloseAddStudentModal" ->
             Updated([state EXCEPT
                         !.modal_state = AddStudentModal_clear(@),
                         !.show_add_student_modal = FALSE], None)
      [] msg.type = "SubjectSelected" ->
             Updated([state EXCEPT !.modal_state.selected_subject = Some(msg.arg)],
                     None)
      [] msg.type = "StudentCardHovered" ->
             Updated([state EXCEPT !.hovered_student_card = msg.arg], None)
      [] msg.type = "AddTimeSlot" ->
             Updated([state EXCEPT !.modal_state = AddTimeSlot_update(@)], None)
      [] msg.type = "RemoveTimeSlot" ->
             Updated([state EXCEPT !.modal_state = RemoveTimeSlot_update(@, msg.arg)],
                     None)
      [] msg.type = "TutoringDaySelected" ->
             Updated([state EXCEPT !.modal_state =
                         TutoringDaySelected_update(@, msg.arg[1], msg.arg[2])],
                     None)
      [] msg.type = "TutoringTimeSelected" ->
             Updated([state EXCEPT !.modal_state =
                         TutoringTimeSelected_update(@, msg.arg[1], msg.arg[2])],
                     None)
      [] msg.type = "FirstNameInputChanged" ->
             Updated([state EXCEPT !.modal_state.modal_input.first_name = msg.arg],
                     None)
      [] msg.type = "LastNameInputChanged" ->
             Updated([state EXCEPT !.modal_state.modal_input.last_name = msg.arg],
                     None)
      [] msg.type = "OtherNamesInputChanged" ->
             Updated([state EXCEPT !.modal_state.modal_input.other_names = msg.arg],
                     None)
      [] msg.type = "RateInputChanged" ->
             Updated([state EXCEPT !.modal_state.modal_input.pay_rate = msg.arg],
                     None)
      [] msg.type = "AddStudent" -> AddStudent_update(state)
      [] msg.type = "StudentAdded" ->
             Updated([state EXCEPT !.modal_state.modal_message =
                         IF msg.arg = "Ok" THEN "Student saved" ELSE msg.arg],
                     None)

\* students::view: the modal, when shown, unwraps the tutor for its subject
\* pick list and for its schedule section
students_view(state) ==
    IF state.show_add_student_modal
    THEN IF state.tutor = None THEN Panic("modal") ELSE Ok("modal")
    ELSE Ok("student_manager")

\* impl Into<Screen> for SideMenuItem
SideMenuItem_into(item) ==
    CASE item = "SideMenuItem::Dashboard" -> "Screen::Dashboard"
      [] item = "SideMenuItem::StudentManager" -> "Screen::StudentManager"
      [] item = "SideMenuItem::Settings" -> "Screen::Settings"
      [] item = "SideMenuItem::Logout" -> "Screen::Logout"

\* ShellState::default; an Animated value is kept as the value it moves to
ShellState_default ==
    [current_screen |-> "Screen::Dashboard",
     selected_menu_item |-> "SideMenuItem::Dashboard",
     hovered_menu_item |-> None,
     side_menu_hovered |-> FALSE,
     animated_menu_width_change |-> FALSE,
     animated_menu_item_height_change |-> FALSE,
     show_menu_text |-> FALSE]

\* shell::update
shell_update(state, msg) ==
    CASE msg.type = "NavigateTo" ->
             [state EXCEPT !.selected_menu_item = msg.arg,
                           !.current_screen = SideMenuItem_into(msg.arg)]
      [] msg.type = "SideMenuHovered" ->
             [state EXCEPT !.animated_menu_width_change = msg.arg,
                           !.side_menu_hovered = msg.arg]
      [] msg.type = "MenuItemHovered" ->
             [state EXCEPT !.hovered_menu_item = msg.arg]
      [] msg.type = "Tick" -> state

\* DashboardSummary::empty
DashboardSummary_empty ==
    [attendance |-> [total_scheduled_sessions |-> 0, total_actual_sessions |-> 0],
     actual_revenue |-> [amount |-> 0, trend |-> NoData],
     potential_revenue |-> [amount |-> 0],
     lost_revenue |-> [amount |-> 0, trend |-> NoData]]

\* The positions of a Vec, in order
Positions(vec) == [i \in DOMAIN vec |-> i]

\* DashboardSummary::compute_from_domain_state; today is the date
\* Local::now() reads
DashboardSummary_compute_from_domain_state(domain, today) ==
    ThenTry(Collect([i \in DOMAIN domain.students |->
                compute_monthly_completed_sessions(domain.students[i],
                                                   MonthOf(today), YearOf(today))]),
            LAMBDA completed :
    ThenTry(Collect([i \in DOMAIN domain.students |->
                compute_monthly_scheduled_sessions(domain.students[i],
                                                   MonthOf(today), YearOf(today))]),
            LAMBDA scheduled :
    ThenTry(SumOver(domain.students, Positions(domain.students),
                    MonthOf(today), YearOf(today), "scheduled"),
            LAMBDA potential_earnings :
    ThenTry(SumOver(domain.students, Positions(domain.students),
                    MonthOf(today), YearOf(today), "completed"),
            LAMBDA actual_earnings :
    Then(get_actual_income_trend_direction(domain.students, today),
         LAMBDA actual_income_trend :
        [attendance |-> [total_scheduled_sessions |-> SumSeq(scheduled),
                         total_actual_sessions |-> SumSeq(completed)],
         actual_revenue |-> [amount |-> actual_earnings,
                             trend |-> actual_income_trend],
         potential_revenue |-> [amount |-> potential_earnings],
         lost_revenue |-> [amount |-> potential_earnings - actual_earnings,
                           trend |-> NoData]])))))

\* DashboardState::empty
DashboardState_empty ==
    [hovered_dashboard_card |-> None,
     barchart |-> <<>>,
     linechart |-> <<>>,
     dashboard_summary |-> DashboardSummary_empty,
     is_ready |-> FALSE]

\* What attach_domain computes from the domain: the data of the two charts
\* and the summary; now is the date Local::now() reads
DashboardContent(domain, now) ==
    ThenTry(compute_income_data(domain.students), LAMBDA income_data :
    ThenTry(compute_attendance_data(domain.students), LAMBDA attendance_data :
    Then(DashboardSummary_compute_from_domain_state(domain, now), LAMBDA summary :
        [barchart |-> income_data,
         linechart |-> attendance_data,
         dashboard_summary |-> summary])))

\* mock_domain: the Domain load_state_from_db returns
MockTutor ==
    [id |-> "tutor1", name |-> [first |-> "Andy", last |-> "Murray", other |-> None]]

Domain(tutor, studs) == [tutor |-> tutor, students |-> studs]

MockDomain == Domain(MockTutor, MockStudents)

\* The dates Local::now() reads while the domain is attached: one in a
\* month without sessions, one in the month of the logged sessions
LoadClockPool == {Ymd(2025, 1, 6), Ymd(2025, 11, 3)}

\* DashboardContent of the mock domain, computed once for each date
MockDashboardContent ==
    [now \in LoadClockPool |-> DashboardContent(MockDomain, now)]

\* A faulty variant: the charts are filled but the dashboard is not marked
\* ready.
DashboardState_attach_domain_NotReady(state, domain, now) ==
    Then(IF domain = MockDomain /\ now \in LoadClockPool
         THEN MockDashboardContent[now]
         ELSE DashboardContent(domain, now),
         LAMBDA content :
        [state EXCEPT !.barchart = content.barchart,
                      !.linechart = content.linechart,
                      !.dashboard_summary = content.dashboard_summary])

\* DashboardState::attach_domain; now is the date Local::now() reads
DashboardState_attach_domain(state, domain, now) ==
    Then(IF domain = MockDomain /\ now \in LoadClockPool
         THEN MockDashboardContent[now]
         ELSE DashboardContent(domain, now),
         LAMBDA content :
        [state EXCEPT !.barchart = content.barchart,
                      !.linechart = content.linechart,
                      !.dashboard_summary = content.dashboard_summary,
                      !.is_ready = TRUE])

\* dashboard::update
dashboard_update(state, msg) ==
    CASE msg.type = "DashboardCardHovered" ->
             [state EXCEPT !.hovered_dashboard_card = msg.arg]

\* format!("{:.1}", num / den): the tenths of the value rounded to one
\* decimal, a tie going to the even digit
FormatOneDecimal(num, den) ==
    IF 2 * ((10 * num) % den) > den
       \/ (2 * ((10 * num) % den) = den /\ ((10 * num) \div den) % 2 = 1)
    THEN (10 * num) \div den + 1
    ELSE (10 * num) \div den

\* view_dashboard::trend_format: the text of the change and whether the
\* change is shown as positive
trend_format(trend) ==
    CASE trend.kind = "NoData" -> <<FormatOneDecimal(0, 1), None>>
      [] trend.kind = "Trend" /\ trend.trend_direction = "Up" ->
             <<FormatOneDecimal(trend.pct_num, trend.pct_den), Some(TRUE)>>
      [] trend.kind = "Trend" /\ trend.trend_direction = "Down" ->
             <<FormatOneDecimal(trend.pct_num, trend.pct_den), Some(TRUE)>>

\* metric_card: the icon shown beside the trend text
metric_card_trend_icon(is_positive_opt) ==
    CASE is_positive_opt = None -> None
      [] is_positive_opt = Some(TRUE) -> Some("arrow_up")
      [] is_positive_opt = Some(FALSE) -> Some("arrow_down")

\* AppMsg and the Msg of each screen
Msg(type, arg) == [type |-> type, arg |-> arg]
Shell(msg) == [variant |-> "Shell", msg |-> msg]
Dashboard(msg) == [variant |-> "Dashboard", msg |-> msg]
StudentManager(msg) == [variant |-> "StudentManager", msg |-> msg]
DomainLoadedMsg(domain) == [variant |-> "DomainLoaded", msg |-> domain]

\* App::new: the state it builds
App_new ==
    [domain |-> None,
     shell |-> ShellState_default,
     dashboard |-> DashboardState_empty,
     students |-> StudentManagerState_empty]

\* App::update; now is the date Local::now() reads
App_update(state, msg, now) ==
    CASE msg.variant = "Shell" ->
             Ok(Updated([state EXCEPT !.shell = shell_update(@, msg.msg)], None))
      [] msg.variant = "Dashboard" ->
             Ok(Updated([state EXCEPT !.dashboard = dashboard_update(@, msg.msg)],
                        None))
      [] msg.variant = "StudentManager" ->
             Bind(students_update(state.students, msg.msg), LAMBDA r :
                 Ok(Updated([state EXCEPT !.students = r.state], r.task)))
      [] msg.variant = "DomainLoaded" ->
             Then(DashboardState_attach_domain(state.dashboard, msg.msg, now),
                  LAMBDA dashboard :
                 Updated([state EXCEPT
                             !.dashboard = dashboard,
                             !.students = StudentManagerState_attach_domain(@, msg.msg),
                             !.domain = Some(msg.msg)],
                         None))

\* App::view: the student manager on its screen, the dashboard on every
\* other screen
App_view(state) ==
    IF state.shell.current_screen = "Screen::StudentManager"
    THEN students_view(state.students)
    ELSE Ok("dashboard")


\* The tasks in flight: the load App::new starts, the saves AddStudent starts
NoTasks == [DomainLoaded |-> 0, StudentAdded |-> 0]

Spawn(pending, task) ==
    IF task = None THEN pending
    ELSE [pending EXCEPT !.StudentAdded = @ + 1]

\* No application is running: the engine is called on its own
NoApp ==
    /\ app = None
    /\ tasks = NoTasks
    /\ view = Ok(None)
    /\ processed = 0

---------------------------------------------------------------------------
(* The engine as a state machine: a roster is loaded, then the            *)
(* single-threaded caller invokes operations on it one after another, in   *)
(* any order: each call runs to completion and its result is consumed      *)
(* before the next call starts.                                            *)

Call(op, student, key, counter, today) ==
    [op |-> op, student |-> student, month |-> key[1], year |-> key[2],
     counter |-> counter, today |-> today, previous |-> 0, current |-> 0]

NoKey == <<0, 0>>

NoCall == Call("none", 0, NoKey, "", 0)

\* No BTreeMap in scope
NoGroups == [key \in {} |-> <<>>]

Init ==
    /\ students \in Rosters
    /\ call = NoCall
    /\ students_grouped_by_month = NoGroups
    /\ ret = Ok(0)
    /\ stdout = <<>>
    /\ NoApp

ComputeMonthlyScheduledSessions ==
    /\ call = NoCall
    /\ \E i \in DOMAIN students, key \in MonthPool :
           /\ call' = Call("compute_monthly_scheduled_sessions", i, key, "", 0)
           /\ ret' = compute_monthly_scheduled_sessions(students[i], key[1], key[2])
           /\ UNCHANGED <<students, students_grouped_by_month, stdout, appVars>>

ComputeMonthlyCompletedSessions ==
    /\ call = NoCall
    /\ \E i \in DOMAIN students, key \in MonthPool :
           /\ call' = Call("compute_monthly_completed_sessions", i, key, "", 0)
           /\ ret' = compute_monthly_completed_sessions(students[i], key[1], key[2])
           /\ UNCHANGED <<students, students_grouped_by_month, stdout, appVars>>

ComputeMonthlySum ==
    /\ call = NoCall
    /\ \E i \in DOMAIN students, key \in MonthPool, counter \in Counters :
           /\ call' = Call("compute_monthly_sum", i, key, counter, 0)
           /\ ret' = compute_monthly_sum(students[i], key[1], key[2], counter)
           /\ UNCHANGED <<students, students_grouped_by_month, stdout, appVars>>

GetNextSession ==
    /\ call = NoCall
    /\ \E i \in DOMAIN students, today \in ClockPool :
           /\ call' = Call("get_next_session", i, NoKey, "", today)
           /\ ret' = get_next_session(students[i], today)
           /\ UNCHANGED <<students, students_grouped_by_month, stdout, appVars>>

ComputeIncomeData ==
    /\ call = NoCall
    /\ call' = Call("compute_income_data", 0, NoKey, "", 0)
    /\ students_grouped_by_month' = GroupStudentsByMonth(students)
    /\ \E income_data \in {compute_income_data(students)} :
           /\ ret' = income_data
           \* println!("{:#?}", income_data)
           /\ stdout' = <<income_data.val>>
    /\ UNCHANGED <<students, appVars>>

ComputeAttendanceData ==
    /\ call = NoCall
    /\ call' = Call("compute_attendance_data", 0, NoKey, "", 0)
    /\ students_grouped_by_month' = GroupStudentsByMonth(students)
    /\ ret' = compute_attendance_data(students)
    /\ UNCHANGED <<students, stdout, appVars>>

GetActualIncomeTrendDirection ==
    /\ call = NoCall
    /\ \E income_data \in {compute_income_data(students)}, now \in ClockPool :
           /\ call' = Call("get_actual_income_trend_direction", 0, NoKey, "", now)
           /\ students_grouped_by_month' = GroupStudentsByMonth(students)
           \* get_actual_income_trend_direction(students, now), its
           \* compute_income_data evaluated once
           /\ ret' = ThenTry(income_data, LAMBDA data : TrendOfIncome(data, now))
           \* the println! of the compute_income_data it calls
           /\ stdout' = <<income_data.val>>
           /\ UNCHANGED <<students, appVars>>

ComputeTrend ==
    /\ call = NoCall
    /\ \E previous \in AmountPool, current \in AmountPool :
           /\ call' = [Call("compute_trend", 0, NoKey, "", 0)
                          EXCEPT !.previous = previous, !.current = current]
           /\ ret' = Ok(compute_trend(previous, current))
           /\ UNCHANGED <<students, students_grouped_by_month, stdout, appVars>>

\* view_dashboard formats the trend compute_trend returned and metric_card
\* picks its icon
TrendFormat ==
    /\ call = NoCall
    /\ \E previous \in AmountPool, current \in AmountPool :
           /\ call' = [Call("trend_format", 0, NoKey, "", 0)
                          EXCEPT !.previous = previous, !.current = current]
           /\ ret' = Ok([trend |-> compute_trend(previous, current),
                         text |-> trend_format(compute_trend(previous, current))[1],
                         is_positive |->
                             trend_format(compute_trend(previous, current))[2],
                         icon |-> metric_card_trend_icon(
                             trend_format(compute_trend(previous, current))[2])])
           /\ UNCHANGED <<students, students_grouped_by_month, stdout, appVars>>

\* The caller takes the returned value (or the process has panicked and a
\* fresh run over the same roster begins).
Return ==
    /\ call # NoCall
    /\ call' = NoCall
    /\ students_grouped_by_month' = NoGroups
    /\ ret' = Ok(0)
    /\ stdout' = <<>>
    /\ UNCHANGED <<students, appVars>>

Next ==
    \/ ComputeMonthlyScheduledSessions
    \/ ComputeMonthlyCompletedSessions
    \/ ComputeMonthlySum
    \/ GetNextSession
    \/ ComputeIncomeData
    \/ ComputeAttendanceData
    \/ GetActualIncomeTrendDirection
    \/ Return

Spec == Init /\ [][Next]_vars

\* compute_trend on its own: a pure function of its two arguments, applied
\* to every pair of amounts.
TrendInit ==
    /\ students = MockStudents
    /\ call = NoCall
    /\ students_grouped_by_month = NoGroups
    /\ ret = Ok(0)
    /\ stdout = <<>>
    /\ NoApp

TrendNext ==
    \/ ComputeTrend
    \/ TrendFormat
    \/ Return

TrendSpec == TrendInit /\ [][TrendNext]_vars

\* The calendar helpers on their own: pure functions of (year, month),
\* applied to every year of YearPool and every month number from 0 to 13.
GetMonthDateRange ==
    /\ call = NoCall
    /\ \E year \in YearPool, month \in 0..13 :
           /\ call' = Call("get_month_date_range", 0, <<month, year>>, "", 0)
           /\ ret' = get_month_date_range(year, month)
           /\ UNCHANGED <<students, students_grouped_by_month, stdout, appVars>>

GetAllDatesInMonth ==
    /\ call = NoCall
    /\ \E year \in YearPool, month \in 0..13 :
           /\ call' = Call("get_all_dates_in_month", 0, <<month, year>>, "", 0)
           /\ ret' = get_all_dates_in_month(year, month)
           /\ UNCHANGED <<students, students_grouped_by_month, stdout, appVars>>

CalendarInit ==
    /\ students = MockStudents
    /\ call = NoCall
    /\ students_grouped_by_month = NoGroups
    /\ ret = Ok(0)
    /\ stdout = <<>>
    /\ NoApp

CalendarNext ==
    \/ GetMonthDateRange
    \/ GetAllDatesInMonth
    \/ Return

CalendarSpec == CalendarInit /\ [][CalendarNext]_vars

---------------------------------------------------------------------------
(* The application as a state machine: App::update applied to one message  *)
(* at a time, App::view after each                                         *)

\* The number of messages a run delivers
MaxMessages == 5

SideMenuItems ==
    {"SideMenuItem::Dashboard", "SideMenuItem::StudentManager",
     "SideMenuItem::Settings", "SideMenuItem::Logout"}

\* The subjects the pick list is asked for
SubjectPool == {"TutorSubject::ExtendedMathematics", "TutorSubject::Statistics"}

\* What the user types as a name: a valid one with a blank after it and one
\* with a digit
NamePool == {<<"A", "l", " ">>, <<"A", "1">>}

\* Other names: a short one and one of 101 characters
OtherNamesPool == {<<"J", "r">>, [k \in 1..101 |-> "x"]}

\* Rates: a number with blanks around it and a text that is not a number
RatePool == {<<" ", "1", "5", "0", " ">>, <<"1", "x">>}

\* The days and times the pick lists of a time slot offer
DayPool == {"Tue"}
TimePool == {"5:30 PM"}

AppInit ==
    /\ students = MockStudents
    /\ call = NoCall
    /\ students_grouped_by_month = NoGroups
    /\ ret = Ok(0)
    /\ stdout = <<>>
    \* App::new: the state and the task it starts
    /\ app = App_new
    /\ tasks = [NoTasks EXCEPT !.DomainLoaded = 1]
    /\ view = App_view(App_new)
    /\ processed = 0

\* The application runs until App::update or App::view panics
Running == ~view.panic

\* One message through App::update, then App::view of the new state.
\* pending is what stays in flight once the message is taken, now the date
\* Local::now() reads.
Step(msg, pending, now) ==
    /\ processed < MaxMessages
    /\ processed' = processed + 1
    /\ \E r \in {App_update(app, msg, now)} :
           IF r.panic
           THEN /\ view' = Panic("update")
                /\ UNCHANGED app
                /\ tasks' = pending
           ELSE /\ app' = r.val.state
                /\ tasks' = Spawn(pending, r.val.task)
                /\ view' = App_view(r.val.state)
    /\ UNCHANGED <<students, call, students_grouped_by_month, ret>>

UserStep(msg) == Step(msg, tasks, 0) /\ UNCHANGED stdout

\* The load finishes: load_state_from_db has returned mock_domain()
DomainLoaded ==
    /\ Running
    /\ tasks.DomainLoaded > 0
    /\ \E now \in LoadClockPool :
           /\ Step(DomainLoadedMsg(Domain(MockTutor, students)),
                   [tasks EXCEPT !.DomainLoaded = @ - 1], now)
           \* the println! of compute_income_data, called by attach_domain
           \* and by get_actual_income_trend_direction
           /\ stdout' = IF view'.panic THEN stdout
                        ELSE stdout \o <<app'.dashboard.barchart,
                                         app'.dashboard.barchart>>

NavigateTo ==
    /\ Running
    /\ \E item \in SideMenuItems :
           UserStep(Shell(Msg("NavigateTo", item)))

MenuItemHovered ==
    /\ Running
    /\ \E item \in {Some("SideMenuItem::Settings")} :
           UserStep(Shell(Msg("MenuItemHovered", item)))

SideMenuHovered ==
    /\ Running
    /\ \E is_hovered \in {TRUE} :
           UserStep(Shell(Msg("SideMenuHovered", is_hovered)))

Tick ==
    /\ Running
    /\ UserStep(Shell(Msg("Tick", None)))

DashboardCardHovered ==
    /\ Running
    /\ \E card_index \in {Some(0)} :
           UserStep(Dashboard(Msg("DashboardCardHovered", card_index)))

StudentCardHovered ==
    /\ Running
    /\ \E card_idx_opt \in {Some(0)} :
           UserStep(StudentManager(Msg("StudentCardHovered", card_idx_opt)))

ShowAddStudentModal ==
    /\ Running
    /\ UserStep(StudentManager(Msg("ShowAddStudentModal", None)))

CloseAddStudentModal ==
    /\ Running
    /\ UserStep(StudentManager(Msg("CloseAddStudentModal", None)))

SubjectSelected ==
    /\ Running
    /\ \E subject \in SubjectPool :
           UserStep(StudentManager(Msg("SubjectSelected", subject)))

FirstNameInputChanged ==
    /\ Running
    /\ \E name \in NamePool :
           UserStep(StudentManager(Msg("FirstNameInputChanged", name)))

LastNameInputChanged ==
    /\ Running
    /\ \E name \in NamePool :
           UserStep(StudentManager(Msg("LastNameInputChanged", name)))

OtherNamesInputChanged ==
    /\ Running
    /\ \E name \in OtherNamesPool :
           UserStep(StudentManager(Msg("OtherNamesInputChanged", name)))

RateInputChanged ==
    /\ Running
    /\ \E amount \in RatePool :
           UserStep(StudentManager(Msg("RateInputChanged", amount)))

AddStudent ==
    /\ Running
    /\ UserStep(StudentManager(Msg("AddStudent", None)))

\* A save finishes: add_student returns Ok(())
StudentAdded ==
    /\ Running
    /\ tasks.StudentAdded > 0
    /\ Step(StudentManager(Msg("StudentAdded", "Ok")),
            [tasks EXCEPT !.StudentAdded = @ - 1], 0)
    /\ UNCHANGED stdout

AddTimeSlot ==
    /\ Running
    /\ UserStep(StudentManager(Msg("AddTimeSlot", None)))

\* The ids a message may name: those handed out so far and the next one
SlotIds == 0..app.students.modal_state.next_slot_id

RemoveTimeSlot ==
    /\ Running
    /\ \E id \in SlotIds :
           UserStep(StudentManager(Msg("RemoveTimeSlot", id)))

TutoringDaySelected ==
    /\ Running
    /\ \E slot_id \in SlotIds, day \in DayPool :
           UserStep(StudentManager(Msg("TutoringDaySelected", <<slot_id, day>>)))

TutoringTimeSelected ==
    /\ Running
    /\ \E slot_id \in SlotIds, time \in TimePool :
           UserStep(StudentManager(Msg("TutoringTimeSelected", <<slot_id, time>>)))

AppNext ==
    \/ DomainLoaded
    \/ NavigateTo
    \/ MenuItemHovered
    \/ SideMenuHovered
    \/ Tick
    \/ DashboardCardHovered
    \/ StudentCardHovered
    \/ ShowAddStudentModal
    \/ CloseAddStudentModal
    \/ SubjectSelected
    \/ FirstNameInputChanged
    \/ LastNameInputChanged
    \/ OtherNamesInputChanged
    \/ RateInputChanged
    \/ AddStudent
    \/ StudentAdded
    \/ AddTimeSlot
    \/ RemoveTimeSlot
    \/ TutoringDaySelected
    \/ TutoringTimeSelected

AppSpec == AppInit /\ [][AppNext]_vars

---------------------------------------------------------------------------
(* Properties: what the operations are specified to return, stated over    *)
(* the roster without the engine's operators.                              *)

Years == 2024..2025

\* scheduledWeekdays: the set of weekdays of the weekly schedule
ScheduledDays(student) ==
    {student.tabled_sessions[k].day : k \in DOMAIN student.tabled_sessions}

\* The positions of a student's log dated in month m of year y
LoggedIn(student, m, y) ==
    {k \in DOMAIN student.actual_sessions :
        MonthOf(student.actual_sessions[k]) = m /\ YearOf(student.actual_sessions[k]) = y}

\* ... and of those, the ones on a scheduled weekday
LoggedOnSchedule(student, m, y) ==
    {k \in LoggedIn(student, m, y) :
        WeekdayOf(student.actual_sessions[k]) \in ScheduledDays(student)}

\* The calendar dates of month m of year y
DatesOfMonth(m, y) == {DaysFromCivil(y, m, 1) + k : k \in 0..(DaysInMonth(y, m) - 1)}

ScheduledDates(student, m, y) ==
    {d \in DatesOfMonth(m, y) : WeekdayOf(d) \in ScheduledDays(student)}

\* The students with at least one logged session in month m of year y
ActiveIn(studs, m, y) == {i \in DOMAIN studs : LoggedIn(studs[i], m, y) # {}}

\* What a student owes for a number of sessions
Owed(student, sessions) ==
    IF student.payment_data.payment_type = "PerSession"
    THEN student.payment_data.amount * sessions
    ELSE student.payment_data.amount

MonthNumber(label) == CHOOSE m \in 1..12 : ShortMonthNames[m] = label

Caller == students[call.student]

\* C1: for every (month, year) with logged activity, compute_income_data
\* reports an entry whose actual is the sum over that month's students of
\* compute_monthly_sum with the completed counter and whose potential is the
\* sum with the scheduled counter; actual counts only sessions logged on a
\* scheduled weekday, so an off-schedule session never increases it.
C1_IncomeSums ==
    call.op = "compute_income_data" =>
        /\ ~ret.panic
        /\ \A m \in 1..12, y \in Years :
            ActiveIn(students, m, y) # {} =>
                \E k \in DOMAIN ret.val :
                    /\ ret.val[k].month_year = <<ShortMonthNames[m], y>>
                    /\ ret.val[k].actual =
                         SumSeq([i \in DOMAIN students |->
                             IF i \in ActiveIn(students, m, y)
                             THEN compute_monthly_sum(students[i], m, y, "completed").val
                             ELSE 0])
                    /\ ret.val[k].potential =
                         SumSeq([i \in DOMAIN students |->
                             IF i \in ActiveIn(students, m, y)
                             THEN compute_monthly_sum(students[i], m, y, "scheduled").val
                             ELSE 0])
                    /\ ret.val[k].actual =
                         SumSeq([i \in DOMAIN students |->
                             IF i \in ActiveIn(students, m, y)
                             THEN Owed(students[i],
                                       Cardinality(LoggedOnSchedule(students[i], m, y)))
                             ELSE 0])

\* Two PerSession@150 students in November 2025, two on-schedule sessions
\* each, the second with a third session off the schedule: actual is 600.
C1_Witness ==
    /\ call.op = "compute_income_data"
    /\ students = <<MockStudents[1], OffSchedule>>
    /\ Cardinality(LoggedIn(OffSchedule, 11, 2025)) = 3
    /\ Cardinality(LoggedOnSchedule(OffSchedule, 11, 2025)) = 2
    /\ ~ret.panic
    /\ Len(ret.val) = 1
    /\ ret.val[1].actual = 600
    /\ ret.val[1].potential = 150 * (8 + 9)

\* C2: the entries compute_income_data returns are in ascending order of
\* (year, month).
C2_AscendingByYearMonth ==
    call.op = "compute_income_data" =>
        \A i, j \in DOMAIN ret.val :
            i < j =>
                \/ ret.val[i].month_year[2] < ret.val[j].month_year[2]
                \/ /\ ret.val[i].month_year[2] = ret.val[j].month_year[2]
                   /\ MonthNumber(ret.val[i].month_year[1])
                        < MonthNumber(ret.val[j].month_year[1])

\* C3: for every (month, year) with logged activity, compute_attendance_data
\* reports as attended_days the number of sessions logged in that month,
\* summed over that month's students (the raw count).
C3_AttendedRawCount ==
    call.op = "compute_attendance_data" =>
        /\ ~ret.panic
        /\ \A m \in 1..12, y \in Years :
            ActiveIn(students, m, y) # {} =>
                \E k \in DOMAIN ret.val :
                    /\ ret.val[k].month = ShortMonthNames[m]
                    /\ ret.val[k].attended_days =
                         SumSeq([i \in DOMAIN students |->
                             IF i \in ActiveIn(students, m, y)
                             THEN Cardinality(LoggedIn(students[i], m, y))
                             ELSE 0])

\* C4: get_actual_income_trend_direction returns NoData, without a panic,
\* whenever the income series is empty or the current key or the previous
\* key (previous month, previous year) has no entry in it.
C4_NoDataWhenKeyMissing ==
    call.op = "get_actual_income_trend_direction" =>
        LET cm == MonthOf(call.today)
            cy == YearOf(call.today)
            pm == IF cm = 1 THEN 12 ELSE cm - 1
        IN  (ActiveIn(students, cm, cy) = {} \/ ActiveIn(students, pm, cy - 1) = {})
                => ret = Ok(NoData)

\* C5: get_next_session of a student with no scheduled weekdays ends
\* without a panic, for every reference date.
C5_NoUpcomingSession ==
    (call.op = "get_next_session" /\ Caller.tabled_sessions = <<>>) => ~ret.panic

\* C6: for a student with a non-empty schedule, get_next_session returns the
\* earliest date from today + 1 to today + 7 whose weekday is scheduled.
C6_NextSessionWithinWeek ==
    (call.op = "get_next_session" /\ Caller.tabled_sessions # <<>>) =>
        /\ ~ret.panic
        /\ ret.val \in (call.today + 1)..(call.today + 7)
        /\ WeekdayOf(ret.val) \in ScheduledDays(Caller)
        /\ \A d \in (call.today + 1)..(ret.val - 1) :
               WeekdayOf(d) \notin ScheduledDays(Caller)

\* A Sunday-only student asked on a Monday gets the Sunday six days later.
C6_Witness ==
    /\ call.op = "get_next_session"
    /\ ScheduledDays(Caller) = {"Sun"}
    /\ WeekdayOf(call.today) = "Mon"
    /\ ~ret.panic
    /\ ret.val = call.today + 6

\* C7: the grouping maps a (month, year) to exactly the students with a
\* session logged in that month of that year, each once; a month with no
\* logged session is not a key.
C7_GroupedByLoggedMonth ==
    call.op \in {"compute_income_data", "compute_attendance_data"} =>
        /\ DOMAIN students_grouped_by_month
             = {key \in (1..12) \X Years : ActiveIn(students, key[1], key[2]) # {}}
        /\ \A key \in DOMAIN students_grouped_by_month :
            /\ Range(students_grouped_by_month[key]) = ActiveIn(students, key[1], key[2])
            /\ Len(students_grouped_by_month[key])
                 = Cardinality(ActiveIn(students, key[1], key[2]))

\* A student with two sessions logged in one month is in that month's group
\* once, and a month the schedule covers but nobody logged in is not a key.
C7_Witness ==
    /\ call.op = "compute_income_data"
    /\ \E i \in DOMAIN students, key \in DOMAIN students_grouped_by_month :
        /\ Cardinality(LoggedIn(students[i], key[1], key[2])) >= 2
        /\ Len(SelectSeq(students_grouped_by_month[key], LAMBDA r : r = i)) = 1
    /\ \E i \in DOMAIN students, m \in 1..12, y \in Years :
        /\ ScheduledDates(students[i], m, y) # {}
        /\ <<m, y>> \notin DOMAIN students_grouped_by_month

\* C8: compute_monthly_completed_sessions is the number of log entries dated
\* in the month whose weekday is scheduled.
C8_CompletedCount ==
    (call.op = "compute_monthly_completed_sessions" /\ call.month \in 1..12) =>
        ret = Ok(Cardinality(LoggedOnSchedule(Caller, call.month, call.year)))

\* A log with an entry outside the month, one in it off the schedule and
\* one in it on the schedule: only the last one counts.
C8_Witness ==
    /\ call.op = "compute_monthly_completed_sessions"
    /\ Caller = Returning
    /\ call.month = 11 /\ call.year = 2025
    /\ Cardinality(LoggedIn(Caller, 11, 2025)) = 2
    /\ Len(Caller.actual_sessions) = 3
    /\ ret = Ok(1)

\* C9: compute_monthly_completed_sessions is at most the number of log
\* entries dated in the month, and equal to it exactly when every one of
\* them is on a scheduled weekday.
C9_CompletedAtMostLogged ==
    (call.op = "compute_monthly_completed_sessions" /\ call.month \in 1..12) =>
        /\ ~ret.panic
        /\ ret.val <= Cardinality(LoggedIn(Caller, call.month, call.year))
        /\ (ret.val = Cardinality(LoggedIn(Caller, call.month, call.year)))
             <=> (\A k \in LoggedIn(Caller, call.month, call.year) :
                     WeekdayOf(Caller.actual_sessions[k]) \in ScheduledDays(Caller))

\* Strictly fewer completed than logged: some entry is off the schedule.
C9_Witness ==
    /\ call.op = "compute_monthly_completed_sessions"
    /\ ~ret.panic
    /\ ret.val >= 1
    /\ ret.val < Cardinality(LoggedIn(Caller, call.month, call.year))
    /\ \E k \in LoggedIn(Caller, call.month, call.year) :
           WeekdayOf(Caller.actual_sessions[k]) \notin ScheduledDays(Caller)

\* C10: compute_monthly_scheduled_sessions is the number of dates of the
\* month whose weekday is in the set of scheduled weekdays: a weekday listed
\* twice counts once per date and the order of the slots is immaterial.
C10_ScheduledCount ==
    (call.op = "compute_monthly_scheduled_sessions" /\ call.month \in 1..12) =>
        ret = Ok(Cardinality(ScheduledDates(Caller, call.month, call.year)))

\* A schedule with two slots on the same weekday, in a month with dates on it.
C10_Witness ==
    /\ call.op = "compute_monthly_scheduled_sessions"
    /\ call.month \in 1..12
    /\ Len(Caller.tabled_sessions) = 2
    /\ Cardinality(ScheduledDays(Caller)) = 1
    /\ ~ret.panic
    /\ ret.val \in 4..5

\* C11: compute_monthly_scheduled_sessions is 0 in every month for a student
\* whose weekly schedule is empty.
C11_NoScheduleNoSessions ==
    (/\ call.op = "compute_monthly_scheduled_sessions"
     /\ call.month \in 1..12
     /\ Caller.tabled_sessions = <<>>) => ret = Ok(0)

\* A student without a schedule who did log a session in the month asked for.
C11_Witness ==
    /\ call.op = "compute_monthly_scheduled_sessions"
    /\ call.month \in 1..12
    /\ Caller.tabled_sessions = <<>>
    /\ LoggedIn(Caller, call.month, call.year) # {}
    /\ ret = Ok(0)

\* C12: compute_monthly_scheduled_sessions never exceeds the number of days
\* of the month, whatever the schedule (all seven weekdays, repeated
\* weekdays).
C12_ScheduledAtMostDaysInMonth ==
    (call.op = "compute_monthly_scheduled_sessions" /\ call.month \in 1..12) =>
        /\ ~ret.panic
        /\ ret.val >= 0
        /\ ret.val <= DaysInMonth(call.year, call.month)

\* Slots on all seven weekdays, one of them twice, in February 2024: 29.
C12_Witness ==
    /\ call.op = "compute_monthly_scheduled_sessions"
    /\ ScheduledDays(Caller) = Range(WeekdayNames)
    /\ Len(Caller.tabled_sessions) > 7
    /\ call.month = 2 /\ call.year = 2024
    /\ ret = Ok(29)

\* C13: for a PerSession student compute_monthly_sum is the amount times the
\* value of the injected counter, scheduled or completed.
C13_PerSessionSum ==
    (/\ call.op = "compute_monthly_sum"
     /\ Caller.payment_data.payment_type = "PerSession") =>
        /\ ret.panic = ApplyCounter(call.counter, Caller, call.month, call.year).panic
        /\ ~ret.panic =>
             ret.val = Caller.payment_data.amount
                         * ApplyCounter(call.counter, Caller, call.month, call.year).val
        /\ call.month \in 1..12 =>
             ret = Ok(Caller.payment_data.amount
                        * (IF call.counter = "scheduled"
                           THEN Cardinality(ScheduledDates(Caller, call.month, call.year))
                           ELSE Cardinality(LoggedOnSchedule(Caller, call.month, call.year))))

\* The scheduled counter injected, in a month where it differs from the
\* completed one.
C13_Witness ==
    /\ call.op = "compute_monthly_sum"
    /\ Caller.payment_data.payment_type = "PerSession"
    /\ call.counter = "scheduled"
    /\ call.month \in 1..12
    /\ Cardinality(LoggedOnSchedule(Caller, call.month, call.year)) = 1
    /\ Cardinality(ScheduledDates(Caller, call.month, call.year)) > 1
    /\ ret = Ok(Caller.payment_data.amount
                  * Cardinality(ScheduledDates(Caller, call.month, call.year)))

\* C14: for a Monthly student compute_monthly_sum is the amount, whatever the
\* month, the year, the counter, the schedule and the log; in the income
\* series a month whose students are all Monthly has actual = potential.
C14_MonthlySum ==
    /\ (/\ call.op = "compute_monthly_sum"
        /\ Caller.payment_data.payment_type = "Monthly") =>
            ret = Ok(Caller.payment_data.amount)
    /\ call.op = "compute_income_data" =>
        \A m \in 1..12, y \in Years :
            (/\ ActiveIn(students, m, y) # {}
             /\ \A i \in ActiveIn(students, m, y) :
                    students[i].payment_data.payment_type = "Monthly") =>
                \E k \in DOMAIN ret.val :
                    /\ ret.val[k].month_year = <<ShortMonthNames[m], y>>
                    /\ ret.val[k].actual = ret.val[k].potential
                    /\ ret.val[k].actual =
                         SumSeq([i \in DOMAIN students |->
                             IF i \in ActiveIn(students, m, y)
                             THEN students[i].payment_data.amount
                             ELSE 0])

\* A Monthly student in a month with scheduled dates and no completed
\* session, the completed counter injected: the amount all the same.
C14_Witness ==
    /\ call.op = "compute_monthly_sum"
    /\ Caller.payment_data.payment_type = "Monthly"
    /\ call.counter = "completed"
    /\ call.month \in 1..12
    /\ ScheduledDates(Caller, call.month, call.year) # {}
    /\ LoggedOnSchedule(Caller, call.month, call.year) = {}
    /\ ret = Ok(400)

\* |a - b|
Distance(a, b) == IF a >= b THEN a - b ELSE b - a

\* C15: compute_trend returns NoData whenever previous is 0, whatever current
\* is (0 and negative values included), and no result has a zero divisor.
C15_NoDataOnZeroPrevious ==
    call.op = "compute_trend" =>
        /\ ~ret.panic
        /\ ret.val.pct_den # 0
        /\ call.previous = 0 => ret.val = NoData

\* A zero previous with a negative current.
C15_Witness ==
    /\ call.op = "compute_trend"
    /\ call.previous = 0
    /\ call.current < 0
    /\ ret = Ok(NoData)

\* C16 (as amended): for previous # 0 compute_trend returns a Trend whose
\* percentage change is |current - previous| / |previous| * 100, which is
\* never negative, with direction Up exactly when current >= previous and
\* Down otherwise; (100, 150) gives Up 50 and (150, 100) gives Down 100/3.
C16_TrendOverMagnitude ==
    (call.op = "compute_trend" /\ call.previous # 0) =>
        /\ ~ret.panic
        /\ ret.val.kind = "Trend"
        /\ ret.val.pct_den > 0
        /\ ret.val.pct_num >= 0
        /\ ret.val.pct_num * Distance(call.previous, 0)
             = Distance(call.current, call.previous) * 100 * ret.val.pct_den
        /\ ret.val.trend_direction
             = (IF call.current >= call.previous THEN "Up" ELSE "Down")
        /\ (call.previous = 100 /\ call.current = 150) =>
               ret.val.pct_num = 50 * ret.val.pct_den
        /\ (call.previous = 150 /\ call.current = 100) =>
               3 * ret.val.pct_num = 100 * ret.val.pct_den

\* compute_trend(150, 100): Down by a third.
C16_Witness ==
    /\ call.op = "compute_trend"
    /\ call.previous = 150
    /\ call.current = 100
    /\ ret.val.kind = "Trend"
    /\ ret.val.trend_direction = "Down"
    /\ 3 * ret.val.pct_num = 100 * ret.val.pct_den

\* C16 (as stated): for previous # 0 the percentage change is
\* |current - previous| / previous * 100, a non-negative value, with
\* direction Up exactly when current >= previous.
C16_TrendOverPrevious ==
    (call.op = "compute_trend" /\ call.previous # 0) =>
        /\ ~ret.panic
        /\ ret.val.kind = "Trend"
        /\ ret.val.pct_num >= 0
        /\ ret.val.pct_den > 0
        /\ ret.val.pct_num * call.previous
             = Distance(call.current, call.previous) * 100 * ret.val.pct_den
        /\ ret.val.trend_direction
             = (IF call.current >= call.previous THEN "Up" ELSE "Down")

\* The keys the trend is specified to compare, for a clock reading now
CurrentKey(now) == <<MonthOf(now), YearOf(now)>>

PreviousKey(now) == <<IF MonthOf(now) = 1 THEN 12 ELSE MonthOf(now) - 1, YearOf(now) - 1>>

\* The months of the income series
ActiveKeys(studs) == {key \in (1..12) \X Years : ActiveIn(studs, key[1], key[2]) # {}}

\* The actual income of a month: what its students owe for their completed
\* sessions
ActualOf(studs, key) ==
    SumSeq([i \in DOMAIN studs |->
        IF i \in ActiveIn(studs, key[1], key[2])
        THEN Owed(studs[i], Cardinality(LoggedOnSchedule(studs[i], key[1], key[2])))
        ELSE 0])

\* C17: the trend is computed from the entries of exactly two keys, the
\* current (month, year) and (month before, year - 1), December when the
\* current month is January; the other entries of the series have no part
\* in the result.
C17_TrendOfTwoKeys ==
    (/\ call.op = "get_actual_income_trend_direction"
     /\ {CurrentKey(call.today), PreviousKey(call.today)} \subseteq ActiveKeys(students)) =>
        /\ ~ret.panic
        /\ ret.val \in {compute_trend(ActualOf(students, PreviousKey(call.today)),
                                      ActualOf(students, CurrentKey(call.today))),
                        compute_trend(ActualOf(students, CurrentKey(call.today)),
                                      ActualOf(students, PreviousKey(call.today)))}

\* Both keys in a series of three entries or more.
C17_Witness ==
    /\ call.op = "get_actual_income_trend_direction"
    /\ {CurrentKey(call.today), PreviousKey(call.today)} \subseteq ActiveKeys(students)
    /\ Cardinality(ActiveKeys(students)) >= 3
    /\ \E key \in ActiveKeys(students) :
           /\ key \notin {CurrentKey(call.today), PreviousKey(call.today)}
           /\ ActualOf(students, key) # ActualOf(students, CurrentKey(call.today))
    /\ ~ret.panic
    /\ ret.val.kind = "Trend"

\* C18: with both keys in the series, the trend is compute_trend with the
\* previous key's actual as previous and the current key's actual as
\* current, in every month of the clock, January included.
C18_NeverSwapped ==
    (/\ call.op = "get_actual_income_trend_direction"
     /\ {CurrentKey(call.today), PreviousKey(call.today)} \subseteq ActiveKeys(students)) =>
        ret = Ok(compute_trend(ActualOf(students, PreviousKey(call.today)),
                               ActualOf(students, CurrentKey(call.today))))

\* C19: with an income series of fewer than two entries, none or one, the
\* trend is NoData.
C19_InsufficientTrendData ==
    (/\ call.op = "get_actual_income_trend_direction"
     /\ Cardinality(ActiveKeys(students)) < 2) => ret = Ok(NoData)

\* C20: the results of get_next_session and of
\* get_actual_income_trend_direction are determined by what the caller
\* passes: they are the same whatever the clock reads.
C20_ClockIndependent ==
    /\ call.op = "get_next_session" =>
           \A clock \in ClockPool : get_next_session(Caller, clock) = ret
    /\ call.op = "get_actual_income_trend_direction" =>
           \A clock \in ClockPool :
               get_actual_income_trend_direction(students, clock) = ret

\* C21: no engine operation changes the roster and none performs I/O:
\* nothing is ever written to the standard output.
C21_PureOperations == [][students' = students /\ stdout' = <<>>]_vars

\* C22: a month number outside 1..12 reaching the calendar helpers through
\* compute_monthly_scheduled_sessions or compute_monthly_completed_sessions
\* yields a value the caller can handle, never a panic.
C22_InvalidMonthRecoverable ==
    (/\ call.op \in {"compute_monthly_scheduled_sessions",
                     "compute_monthly_completed_sessions"}
     /\ call.month \notin 1..12) => ~ret.panic

\* C23: for every year and every month from 1 to 12 get_month_date_range
\* returns the first and the last day of that month of that year; the end
\* of December is 31 December of the same year, the day before 1 January
\* of year + 1.
C23_MonthDateRange ==
    (call.op = "get_month_date_range" /\ call.month \in 1..12) =>
        /\ ~ret.panic
        /\ YearOf(ret.val[1]) = call.year /\ YearOf(ret.val[2]) = call.year
        /\ MonthOf(ret.val[1]) = call.month /\ MonthOf(ret.val[2]) = call.month
        /\ DayOf(ret.val[1]) = 1
        /\ DayOf(ret.val[2]) = DaysInMonth(call.year, call.month)
        /\ DayOf(ret.val[2] + 1) = 1
        /\ call.month = 12 =>
               /\ DayOf(ret.val[2]) = 31
               /\ YearOf(ret.val[2] + 1) = call.year + 1
               /\ MonthOf(ret.val[2] + 1) = 1

\* December 2024: from 1 to 31 December 2024.
C23_Witness ==
    /\ call.op = "get_month_date_range"
    /\ call.month = 12 /\ call.year = 2024
    /\ ret = Ok(<<Ymd(2024, 12, 1), Ymd(2024, 12, 31)>>)

\* C24: for every year and month get_all_dates_in_month returns the days of
\* the month from the first to the last, ascending, without gap or repeat:
\* as many as the month has days, 28 or 29 for February.
C24_AllDatesInMonth ==
    (call.op = "get_all_dates_in_month" /\ call.month \in 1..12) =>
        /\ ~ret.panic
        /\ Len(ret.val) = DaysInMonth(call.year, call.month)
        /\ Len(ret.val) \in 28..31
        /\ call.month = 2 =>
               Len(ret.val) = (IF IsLeapYear(call.year) THEN 29 ELSE 28)
        /\ \A k \in DOMAIN ret.val :
               /\ YearOf(ret.val[k]) = call.year
               /\ MonthOf(ret.val[k]) = call.month
               /\ DayOf(ret.val[k]) = k
        /\ \A k \in 1..(Len(ret.val) - 1) : ret.val[k + 1] = ret.val[k] + 1

\* February of a leap year: 29 dates.
C24_Witness ==
    /\ call.op = "get_all_dates_in_month"
    /\ call.month = 2 /\ call.year = 2024
    /\ ~ret.panic
    /\ Len(ret.val) = 29
    /\ ret.val[29] = Ymd(2024, 2, 29)

\* C25: compute_monthly_completed_sessions never exceeds
\* compute_monthly_scheduled_sessions, so every income entry has
\* actual <= potential, also when several sessions are logged on one
\* scheduled date.
C25_CompletedAtMostScheduled ==
    /\ (call.op = "compute_monthly_completed_sessions" /\ call.month \in 1..12) =>
           /\ ~ret.panic
           /\ ret.val <= Cardinality(ScheduledDates(Caller, call.month, call.year))
    /\ call.op = "compute_income_data" =>
           \A k \in DOMAIN ret.val : ret.val[k].actual <= ret.val[k].potential

\* The student manager's modal, and whether the domain has been attached
ModalState == app.students.modal_state

DomainAttached == app.students.tutor # None

\* C26: whenever the add-student modal is shown the tutor is loaded, and
\* the view never panics on unwrapping a tutor that is not there, whatever
\* the order of the user's messages and DomainLoaded.
C26_ModalOnlyWithTutor ==
    /\ app.students.show_add_student_modal => app.students.tutor # None
    /\ ~view.panic

\* C27: once the domain is attached the modal has 1 to 3 time slots with
\* pairwise distinct ids, all below next_slot_id; AddTimeSlot at 3 slots
\* changes nothing; removing the only slot leaves one empty slot under an
\* id never used before.
C27_TimeSlotsWellFormed ==
    DomainAttached =>
        /\ Len(ModalState.time_slots) \in 1..3
        /\ \A i, j \in DOMAIN ModalState.time_slots :
               i # j => ModalState.time_slots[i].id # ModalState.time_slots[j].id
        /\ \A i \in DOMAIN ModalState.time_slots :
               ModalState.time_slots[i].id < ModalState.next_slot_id
        /\ Len(ModalState.time_slots) = 3 =>
               students_update(app.students, Msg("AddTimeSlot", None))
                   = Updated(app.students, None)
        /\ Len(ModalState.time_slots) = 1 =>
               students_update(app.students,
                               Msg("RemoveTimeSlot", ModalState.time_slots[1].id))
                   = Updated([app.students EXCEPT
                                 !.modal_state.time_slots =
                                     <<[id |-> ModalState.next_slot_id,
                                        selected_day |-> <<>>,
                                        selected_time |-> <<>>]>>,
                                 !.modal_state.next_slot_id = @ + 1],
                             None)

\* Three slots after the first one was removed and another added.
C27_Witness ==
    /\ DomainAttached
    /\ Len(ModalState.time_slots) = 3
    /\ ModalState.time_slots[1].id = 1
    /\ ModalState.time_slots[3].id = 3
    /\ ModalState.next_slot_id = 4

\* C28: a Down trend is shown with the down indicator (Some(false), the
\* down arrow), an Up trend with the up indicator (Some(true), the up
\* arrow), NoData with no indicator.
C28_TrendIndicator ==
    call.op = "trend_format" =>
        /\ ~ret.panic
        /\ ret.val.trend.kind = "NoData" =>
               ret.val.is_positive = <<>> /\ ret.val.icon = <<>>
        /\ (ret.val.trend.kind = "Trend" /\ ret.val.trend.trend_direction = "Up") =>
               ret.val.is_positive = <<TRUE>> /\ ret.val.icon = <<"arrow_up">>
        /\ (ret.val.trend.kind = "Trend" /\ ret.val.trend.trend_direction = "Down") =>
               ret.val.is_positive = <<FALSE>> /\ ret.val.icon = <<"arrow_down">>

\* The four fields of the modal input all validate as Safe
AllSafe ==
    \E validated \in {validate_student(ModalState.modal_input)} :
        \A field \in {"first", "last", "other", "rate"} :
            validated[field][2].tag = "Safe"

\* C29: AddStudent starts the save task exactly when first name, last
\* name, other names and rate all validate as Safe; otherwise it starts
\* nothing, sets validation_errors to the validation result and leaves
\* the modal input, the time slots, the selected subject and the modal's
\* visibility as they were.
C29_AddStudentValidated ==
    \E updated \in {students_update(app.students, Msg("AddStudent", None))} :
        /\ updated.task # <<>> <=> AllSafe
        /\ ~AllSafe =>
               /\ updated.task = <<>>
               /\ updated.state.modal_state.validation_errors
                      = <<validate_student(ModalState.modal_input)>>
               /\ updated.state.modal_state.modal_input = ModalState.modal_input
               /\ updated.state.modal_state.time_slots = ModalState.time_slots
               /\ updated.state.modal_state.selected_subject
                      = ModalState.selected_subject
               /\ updated.state.show_add_student_modal
                      = app.students.show_add_student_modal

\* A rejected AddStudent followed by an accepted one: the errors of the
\* first are still shown while the save of the second is in flight.
C29_Witness ==
    /\ tasks.StudentAdded > 0
    /\ AllSafe
    /\ ModalState.validation_errors # <<>>
    /\ ModalState.validation_errors[1].first[2].tag = "Problematic"

\* C30: before DomainLoaded is processed the app has no domain, a
\* dashboard that is not ready and no student list; once it is processed
\* the app has all three, in that state and in every later one, whatever
\* Shell, Dashboard and StudentManager messages follow.
C30_DomainAttachedTogether ==
    /\ tasks.DomainLoaded > 0 =>
           /\ app.domain = <<>>
           /\ ~app.dashboard.is_ready
           /\ app.students.students = <<>>
    /\ tasks.DomainLoaded = 0 =>
           /\ app.domain # <<>>
           /\ app.dashboard.is_ready
           /\ app.students.students # <<>>

\* The domain is attached and a message of each screen has been handled
\* since.
C30_Witness ==
    /\ tasks.DomainLoaded = 0
    /\ app.domain # <<>>
    /\ app.dashboard.is_ready
    /\ app.students.students # <<>>
    /\ app.students.show_add_student_modal
    /\ app.shell.current_screen = "Screen::StudentManager"
    /\ app.dashboard.hovered_dashboard_card # <<>>

====
